---- MODULE Spec2Model ----
(***************************************************************************)
(* Task tracker: the zustand task store (src/src/store/taskStore.ts), the  *)
(* IndexedDB persistence adapter (src/src/utils/db.ts), the filter engine  *)
(* (src/src/utils/taskFilters.ts), the sort engine                         *)
(* (src/src/utils/taskSorters.ts) and the retry loop of the AI calls       *)
(* (retryWithBackoff in src/src/hooks/useTaskActions.ts).                  *)
(*                                                                         *)
(* Encoding of JavaScript values                                           *)
(*   - a string the code trims is a sequence of one-character strings;     *)
(*   - ids, statuses, priorities and messages are TLA+ strings;            *)
(*   - `undefined` is the string Undefined where a string is expected and  *)
(*     the number NoNumber where a number is expected (TLC cannot compare  *)
(*     a string with a number);                                            *)
(*   - a task is a record with the seven fields of the Task interface, a   *)
(*     patch (Partial<Task>) is a record with a subset of those fields.    *)
(***************************************************************************)
EXTENDS Integers, Sequences, FiniteSets, TLC

\* ------------------------------------------------------------------ bounds
\* Number of store calls (add/update/delete/move/hydrate) in one run.
MaxCalls == 3
\* Largest reading of the wall clock (Date.now()).
MaxTime == 1

\* --------------------------------------------------------------- JS values
Undefined == "undefined"
NULL == "null"
NoNumber == 0 - 1

TaskStatus == {"todo", "inProgress", "done"}
TaskFields ==
  {"id", "title", "description", "status", "createdAt", "priority", "dueDate"}

\* String.prototype.trim on a sequence of characters.
IsSpace(c) == c = " "

RECURSIVE TrimStart(_)
TrimStart(s) ==
  IF s = <<>> THEN <<>>
  ELSE IF IsSpace(Head(s)) THEN TrimStart(Tail(s)) ELSE s

RECURSIVE TrimEnd(_)
TrimEnd(s) ==
  IF s = <<>> THEN <<>>
  ELSE IF IsSpace(s[Len(s)]) THEN TrimEnd(SubSeq(s, 1, Len(s) - 1)) ELSE s

Trim(s) == TrimEnd(TrimStart(s))

\* crypto.randomUUID(): the n-th identifier drawn in this run.  Version-4
\* UUIDs are 122 random bits; a repeated draw is not modelled.
UUIDS == <<"u1", "u2", "u3", "u4", "u5", "u6">>

\* Faulty variant: an identifier source that returns the same value every time.
RandomUUIDRepeats(n) == UUIDS[1]

RandomUUID(n) == UUIDS[n]

\* Every key that occurs, in IndexedDB's key order (strings by code unit):
\* the ids of imported records ("i1", "i2"), then the drawn identifiers.
KEYS == <<"i1", "i2">> \o UUIDS

\* A value IndexedDB accepts as a key: here, any string but `undefined`.
IsValidKey(id) == id # Undefined

\* ------------------------------------------------------------------- state
VARIABLES
  tasks,       \* TaskStore.tasks: the in-memory collection, a sequence of tasks
  error,       \* TaskStore.error: NULL or a message
  isLoading,   \* TaskStore.isLoading
  isHydrated,  \* TaskStore.isHydrated
  filters,     \* TaskStore.filters
  sortConfig,  \* TaskStore.sortConfig
  db,          \* the "tasks" object store of TaskTrackerDB: a set of records
  inflight,    \* adapter calls (saveTasks, loadTasks) not yet finished, in call order
  uuids,       \* number of identifiers crypto.randomUUID() has returned
  now,         \* last reading of Date.now()
  calls,       \* number of store calls made so far
  faulted,     \* some saveTasks call rejected or never settled
  lastCall     \* the operation or callback that ran last, with its arguments

vars ==
  <<tasks, error, isLoading, isHydrated, filters, sortConfig, db, inflight,
    uuids, now, calls, faulted, lastCall>>

storeView == <<filters, sortConfig, isLoading, isHydrated>>

DEFAULT_FILTERS ==
  [search |-> <<>>, status |-> "all", priority |-> "all", showOverdue |-> FALSE]

DEFAULT_SORT == [field |-> "createdAt", direction |-> "desc"]

\* A call that has returned to its caller; threw tells whether an
\* exception left it.
Call(op, args) == [op |-> op, args |-> args, threw |-> FALSE]

Init ==
  /\ tasks = <<>>
  /\ error = NULL
  /\ isLoading = FALSE
  /\ isHydrated = FALSE
  /\ filters = DEFAULT_FILTERS
  /\ sortConfig = DEFAULT_SORT
  /\ db = {}
  /\ inflight = <<>>
  /\ uuids = 0
  /\ now = 1
  /\ calls = 0
  /\ faulted = FALSE
  /\ lastCall = Call("create", <<>>)

\* ------------------------------------------------------- adapter call records
\* saveTasks(ts) up to its first await: the snapshot is bound and the
\* database open request is issued.  placed counts the add requests the
\* transaction holds once it exists.
\* by is the caller that awaits the call: "store" (persistTasks) or
\* "import" (handleImport).
SaveCall(ts, by) ==
  [kind |-> "save", tasks |-> ts, phase |-> "open", placed |-> 0, by |-> by]

\* loadTasks() up to its first await.
LoadCall ==
  [kind |-> "load", tasks |-> <<>>, phase |-> "open", placed |-> 0, by |-> "store"]

\* Faulty variant: only the record last written is handed to saveTasks.
PersistTasksDelta(ts) ==
  Append(inflight,
         SaveCall(IF ts = <<>> THEN <<>> ELSE <<ts[Len(ts)]>>, "store"))

\* persistTasks(): reads get().tasks (ts, the collection just set) and
\* calls saveTasks(ts) without the caller awaiting it.
PersistTasks(ts) == Append(inflight, SaveCall(ts, "store"))

\* ------------------------------------------------------------ store actions
\* Faulty variant: the exception leaves the call instead of being recorded.
Rethrown(op, args, message) ==
  /\ error' = error
  /\ lastCall' = [op |-> op, args |-> args, threw |-> TRUE]

\* The catch block of a store mutation: an exception thrown in its try
\* block is recorded with set({ error: error.message }) and the call returns.
Caught(op, args, message) ==
  /\ error' = message
  /\ lastCall' = Call(op, args)

\* A description argument that is undefined (no string).
NoText == <<Undefined>>

\* The task addTask builds.
NewTask(title, description, priority, dueDate, id, t) ==
  [id |-> id,
   title |-> Trim(title),
   description |-> Trim(description),
   status |-> "todo",
   createdAt |-> t,
   priority |-> priority,
   dueDate |-> dueDate]

\* Faulty variant: the title is tested without trimming it.
TitleMissingNoTrim(title) == title = <<>>

\* !title?.trim()
TitleMissing(title) == Trim(title) = <<>>

\* addTask(title, description, priority, dueDate); t is what Date.now() returns.
AddTask(title, description, priority, dueDate, t) ==
  /\ calls < MaxCalls
  /\ calls' = calls + 1
  /\ IF TitleMissing(title)
     THEN /\ Caught("addTask", <<title, description, priority, dueDate>>,
                    "Task title is required")
          /\ UNCHANGED <<tasks, inflight, uuids, now>>
     ELSE IF description = NoText
     THEN \* crypto.randomUUID() has run when description.trim() throws
          /\ uuids' = uuids + 1
          /\ Caught("addTask", <<title, description, priority, dueDate>>,
                    "Cannot read properties of undefined (reading 'trim')")
          /\ UNCHANGED <<tasks, inflight, now>>
     ELSE /\ lastCall' = Call("addTask", <<title, description, priority, dueDate>>)
          /\ t \in now..MaxTime
          /\ uuids' = uuids + 1
          /\ now' = t
          /\ tasks' = Append(tasks,
                NewTask(title, description, priority, dueDate, RandomUUID(uuids'), t))
          /\ error' = NULL
          /\ inflight' = PersistTasks(tasks')
  /\ UNCHANGED <<isLoading, isHydrated, filters, sortConfig, db, faulted>>

\* { ...task, ...updates }
Merge(task, updates) ==
  [f \in (DOMAIN task) \cup (DOMAIN updates) |->
     IF f \in DOMAIN updates THEN updates[f] ELSE task[f]]

\* The encoding of a patch argument that is undefined or null.
UndefinedPatch == [undefined |-> TRUE]
IsNoObject(updates) == "undefined" \in DOMAIN updates

\* Faulty variant: the existence test is left out.
TaskExistsAlways(ts, id) == TRUE

\* tasks.some((task) => task.id === id)
TaskExists(ts, id) == \E i \in 1..Len(ts) : ts[i].id = id

\* state.tasks.map((task) => task.id === id ? { ...task, ...updates } : task)
Updated(ts, id, updates) ==
  [i \in 1..Len(ts) |-> IF ts[i].id = id THEN Merge(ts[i], updates) ELSE ts[i]]

\* What updateTask(id, updates) leaves: the collection, the error field
\* and the persistence calls in flight.
UpdateOutcome(id, updates) ==
  IF ~TaskExists(tasks, id)
  THEN [tasks |-> tasks, error |-> "Task not found", inflight |-> inflight]
  ELSE IF IsNoObject(updates) \/ DOMAIN updates = {}
  THEN [tasks |-> tasks, error |-> "No updates provided", inflight |-> inflight]
  ELSE [tasks |-> Updated(tasks, id, updates),
        error |-> NULL,
        inflight |-> PersistTasks(Updated(tasks, id, updates))]

\* updateTask(id, updates)
UpdateTask(id, updates) ==
  /\ calls < MaxCalls
  /\ calls' = calls + 1
  /\ tasks' = UpdateOutcome(id, updates).tasks
  /\ inflight' = UpdateOutcome(id, updates).inflight
  /\ IF UpdateOutcome(id, updates).error # NULL
     THEN Caught("updateTask", <<id, updates>>, UpdateOutcome(id, updates).error)
     ELSE /\ error' = NULL
          /\ lastCall' = Call("updateTask", <<id, updates>>)
  /\ UNCHANGED <<isLoading, isHydrated, filters, sortConfig, db, uuids, now, faulted>>

\* !x for an id or status argument: undefined and the empty string are falsy.
Falsy(x) == x = Undefined \/ x = ""

\* Faulty variant: the filter keeps the tasks with the id instead of the others.
OnlyId(ts, id) == SelectSeq(ts, LAMBDA x : x.id = id)

\* tasks.filter((task) => task.id !== id)
RECURSIVE WithoutId(_, _)
WithoutId(ts, id) ==
  IF ts = <<>> THEN <<>>
  ELSE IF Head(ts).id = id THEN WithoutId(Tail(ts), id)
  ELSE <<Head(ts)>> \o WithoutId(Tail(ts), id)

\* Faulty variant: an id that matches no task is reported as an error.
DeleteTaskChecked(id) ==
  /\ calls < MaxCalls
  /\ calls' = calls + 1
  /\ IF Falsy(id) \/ ~TaskExists(tasks, id)
     THEN /\ Caught("deleteTask", <<id>>, "Task not found")
          /\ UNCHANGED <<tasks, inflight>>
     ELSE /\ lastCall' = Call("deleteTask", <<id>>)
          /\ tasks' = WithoutId(tasks, id)
          /\ error' = NULL
          /\ inflight' = PersistTasks(tasks')
  /\ UNCHANGED <<isLoading, isHydrated, filters, sortConfig, db, uuids, now, faulted>>

\* deleteTask(id)
DeleteTask(id) ==
  /\ calls < MaxCalls
  /\ calls' = calls + 1
  /\ IF Falsy(id)
     THEN /\ Caught("deleteTask", <<id>>, "Task ID is required")
          /\ UNCHANGED <<tasks, inflight>>
     ELSE /\ lastCall' = Call("deleteTask", <<id>>)
          /\ tasks' = WithoutId(tasks, id)
          /\ error' = NULL
          /\ inflight' = PersistTasks(tasks')
  /\ UNCHANGED <<isLoading, isHydrated, filters, sortConfig, db, uuids, now, faulted>>

\* Faulty variant: the map returns the matching task without the new status.
MovedNothing(ts, id, newStatus) == ts

\* Faulty variant: the map sets the status of every task.
MovedAll(ts, id, newStatus) ==
  [i \in 1..Len(ts) |-> Merge(ts[i], [status |-> newStatus])]

\* state.tasks.map((task) => task.id === id ? { ...task, status: newStatus } : task)
Moved(ts, id, newStatus) ==
  [i \in 1..Len(ts) |->
     IF ts[i].id = id THEN Merge(ts[i], [status |-> newStatus]) ELSE ts[i]]

\* moveTask(id, newStatus)
MoveTask(id, newStatus) ==
  /\ calls < MaxCalls
  /\ calls' = calls + 1
  /\ IF Falsy(id) \/ Falsy(newStatus)
     THEN /\ Caught("moveTask", <<id, newStatus>>, "Invalid move parameters")
          /\ UNCHANGED <<tasks, inflight>>
     ELSE /\ lastCall' = Call("moveTask", <<id, newStatus>>)
          /\ tasks' = Moved(tasks, id, newStatus)
          /\ error' = NULL
          /\ inflight' = PersistTasks(tasks')
  /\ UNCHANGED <<isLoading, isHydrated, filters, sortConfig, db, uuids, now, faulted>>

\* Faulty variant: hydrate shows the spinner and never calls loadTasks().
HydrateStartsNoLoad(q) ==
  /\ isLoading' = TRUE
  /\ inflight' = q

\* ------------------------------------------------------------ filter engine
\* The letters that occur, upper case and lower case, in alphabet order.
UPPER == <<"A", "C", "D">>
LOWER == <<"a", "c", "d">>

\* String.prototype.toLowerCase()
ToLowerCase(s) ==
  [i \in 1..Len(s) |->
     IF \E k \in 1..Len(UPPER) : UPPER[k] = s[i]
     THEN LOWER[CHOOSE k \in 1..Len(UPPER) : UPPER[k] = s[i]]
     ELSE s[i]]

\* String.prototype.includes(q)
Includes(s, q) ==
  \E i \in 1..(Len(s) + 1) :
    /\ i + Len(q) - 1 <= Len(s)
    /\ SubSeq(s, i, i + Len(q) - 1) = q

\* Faulty variant: the first task of the array passes whatever it holds.
FilterBySearchKeepsFirst(ts, search) ==
  IF search = <<>> \/ Trim(search) = <<>> THEN ts
  ELSE LET hit(x) == \/ Includes(ToLowerCase(x.title), ToLowerCase(search))
                     \/ Includes(ToLowerCase(x.description), ToLowerCase(search))
           rest == IF ts = <<>> THEN <<>> ELSE SelectSeq(Tail(ts), hit)
       IN  IF ts = <<>> THEN <<>> ELSE <<Head(ts)>> \o rest

\* filterBySearch(tasks, search)
FilterBySearch(ts, search) ==
  IF search = <<>> \/ Trim(search) = <<>> THEN ts
  ELSE SelectSeq(ts, LAMBDA x :
         \/ Includes(ToLowerCase(x.title), ToLowerCase(search))
         \/ Includes(ToLowerCase(x.description), ToLowerCase(search)))

\* Faulty variant: the matching tasks are collected last first.
FilterByStatusReversed(ts, status) ==
  LET kept == SelectSeq(ts, LAMBDA x : x.status = status)
  IN  IF status = "all" THEN ts
      ELSE [k \in 1..Len(kept) |-> kept[Len(kept) + 1 - k]]

\* filterByStatus(tasks, status)
FilterByStatus(ts, status) ==
  IF status = "all" THEN ts
  ELSE SelectSeq(ts, LAMBDA x : x.status = status)

\* Faulty variant: a task with no priority passes every priority filter.
FilterByPriorityOrUnset(ts, priority) ==
  IF priority = "all" THEN ts
  ELSE SelectSeq(ts, LAMBDA x : x.priority = priority \/ x.priority = Undefined)

\* filterByPriority(tasks, priority)
FilterByPriority(ts, priority) ==
  IF priority = "all" THEN ts
  ELSE SelectSeq(ts, LAMBDA x : x.priority = priority)

\* A dueDate that is truthy: a number other than 0 (and not undefined).
HasDueDate(d) == d # NoNumber /\ d # 0

\* isOverdue(dueDate), when Date.now() returns t
IsOverdue(dueDate, t) == dueDate < t

\* filterOverdue(tasks, showOverdueOnly), when Date.now() returns t
FilterOverdue(ts, showOverdueOnly, t) ==
  IF ~showOverdueOnly THEN ts
  ELSE SelectSeq(ts, LAMBDA x : HasDueDate(x.dueDate) /\ IsOverdue(x.dueDate, t))

\* applyFilters(tasks, filters), when Date.now() returns t
ApplyFilters(ts, f, t) ==
  FilterOverdue(
    FilterByPriority(
      FilterByStatus(
        FilterBySearch(ts, f.search),
        f.status),
      f.priority),
    f.showOverdue, t)

\* -------------------------------------------------------------- sort engine
\* Faulty variant: a sort that is not stable; tasks that compare equal
\* come out in the reverse of the order they stood in.
StableSortTiesReversed(ts, compare) ==
  LET rank(i) ==
        Cardinality({j \in 1..Len(ts) :
          \/ compare[j][i] < 0
          \/ compare[j][i] = 0 /\ j >= i})
  IN  [k \in 1..Len(ts) |-> ts[CHOOSE i \in 1..Len(ts) : rank(i) = k]]

\* [...tasks].sort(compare), where compare[j][i] is what the comparator
\* returns for the tasks at j and i.  Array.prototype.sort is stable, so
\* with a comparator that orders the tasks consistently the result is
\* fixed: a task comes after those that compare lower, and after those
\* that compare equal and stood before it.
StableSort(ts, compare) ==
  LET rank(i) ==
        Cardinality({j \in 1..Len(ts) :
          \/ compare[j][i] < 0
          \/ compare[j][i] = 0 /\ j <= i})
  IN  [k \in 1..Len(ts) |-> ts[CHOOSE i \in 1..Len(ts) : rank(i) = k]]

\* Faulty variant: the direction is ignored.
DirectedAlwaysAsc(diff, direction) == diff

\* direction === "asc" ? diff : -diff
Directed(diff, direction) == IF direction = "asc" THEN diff ELSE 0 - diff

\* sortByCreatedAt(tasks, direction)
SortByCreatedAt(ts, direction) ==
  StableSort(ts, [j \in 1..Len(ts) |-> [i \in 1..Len(ts) |->
    Directed(ts[j].createdAt - ts[i].createdAt, direction)]])

\* The comparator of sortByDueDate: tasks without a (truthy) dueDate go last.
CompareDueDate(a, b, direction) ==
  IF ~HasDueDate(a.dueDate) /\ ~HasDueDate(b.dueDate) THEN 0
  ELSE IF ~HasDueDate(a.dueDate) THEN 1
  ELSE IF ~HasDueDate(b.dueDate) THEN 0 - 1
  ELSE Directed(a.dueDate - b.dueDate, direction)

\* sortByDueDate(tasks, direction)
SortByDueDate(ts, direction) ==
  StableSort(ts, [j \in 1..Len(ts) |-> [i \in 1..Len(ts) |->
    CompareDueDate(ts[j], ts[i], direction)]])

PRIORITY_WEIGHTS == [high |-> 3, medium |-> 2, low |-> 1]

\* getPriorityWeight(priority)
GetPriorityWeight(priority) ==
  IF priority = Undefined THEN 0 ELSE PRIORITY_WEIGHTS[priority]

\* sortByPriority(tasks, direction)
SortByPriority(ts, direction) ==
  StableSort(ts, [j \in 1..Len(ts) |-> [i \in 1..Len(ts) |->
    Directed(GetPriorityWeight(ts[j].priority) - GetPriorityWeight(ts[i].priority),
             direction)]])

\* Collation of the characters that occur: the space before the letters,
\* the letters in alphabet order whatever their case.
Primary(ch) ==
  IF ch = " " THEN 0
  ELSE CHOOSE k \in 1..Len(LOWER) : LOWER[k] = ch \/ UPPER[k] = ch

\* Lower case before upper case, where the letters are the same.
Tertiary(ch) == IF \E k \in 1..Len(UPPER) : UPPER[k] = ch THEN 1 ELSE 0

\* Order of two sequences of weights, as -1, 0 or 1.
RECURSIVE LexCompare(_, _)
LexCompare(v, w) ==
  IF v = <<>> /\ w = <<>> THEN 0
  ELSE IF v = <<>> THEN 0 - 1
  ELSE IF w = <<>> THEN 1
  ELSE IF Head(v) < Head(w) THEN 0 - 1
  ELSE IF Head(v) > Head(w) THEN 1
  ELSE LexCompare(Tail(v), Tail(w))

\* String.prototype.localeCompare: by letters first, then by case.
LocaleCompare(s, t) ==
  LET byLetter ==
        LexCompare([i \in 1..Len(s) |-> Primary(s[i])],
                   [i \in 1..Len(t) |-> Primary(t[i])])
  IN  IF byLetter # 0 THEN byLetter
      ELSE LexCompare([i \in 1..Len(s) |-> Tertiary(s[i])],
                      [i \in 1..Len(t) |-> Tertiary(t[i])])

\* sortByTitle(tasks, direction)
SortByTitle(ts, direction) ==
  StableSort(ts, [j \in 1..Len(ts) |-> [i \in 1..Len(ts) |->
    Directed(LocaleCompare(ts[j].title, ts[i].title), direction)]])

\* Faulty variant: an unrecognized field falls back to the default sort.
ApplySortDefaulting(ts, config) ==
  CASE config.field = "dueDate" -> SortByDueDate(ts, config.direction)
    [] config.field = "priority" -> SortByPriority(ts, config.direction)
    [] config.field = "title" -> SortByTitle(ts, config.direction)
    [] OTHER -> SortByCreatedAt(ts, config.direction)

\* applySort(tasks, config)
ApplySort(ts, config) ==
  CASE config.field = "createdAt" -> SortByCreatedAt(ts, config.direction)
    [] config.field = "dueDate" -> SortByDueDate(ts, config.direction)
    [] config.field = "priority" -> SortByPriority(ts, config.direction)
    [] config.field = "title" -> SortByTitle(ts, config.direction)
    [] OTHER -> ts

\* ------------------------------------------------------ view state and error
\* setFilters(newFilters): filters: { ...state.filters, ...newFilters }
SetFilters(newFilters) ==
  /\ calls < MaxCalls
  /\ calls' = calls + 1
  /\ lastCall' = Call("setFilters", <<newFilters>>)
  /\ filters' = Merge(filters, newFilters)
  /\ UNCHANGED <<tasks, error, isLoading, isHydrated, sortConfig, db, inflight,
                 uuids, now, faulted>>

\* setSortConfig(config)
SetSortConfig(config) ==
  /\ calls < MaxCalls
  /\ calls' = calls + 1
  /\ lastCall' = Call("setSortConfig", <<config>>)
  /\ sortConfig' = config
  /\ UNCHANGED <<tasks, error, isLoading, isHydrated, filters, db, inflight,
                 uuids, now, faulted>>

\* Faulty variant: resetting the filters also clears the error.
ResetFiltersAndError ==
  /\ calls < MaxCalls
  /\ calls' = calls + 1
  /\ lastCall' = Call("resetFilters", <<>>)
  /\ filters' = DEFAULT_FILTERS
  /\ sortConfig' = DEFAULT_SORT
  /\ error' = NULL
  /\ UNCHANGED <<tasks, isLoading, isHydrated, db, inflight, uuids, now, faulted>>

\* resetFilters()
ResetFilters ==
  /\ calls < MaxCalls
  /\ calls' = calls + 1
  /\ lastCall' = Call("resetFilters", <<>>)
  /\ filters' = DEFAULT_FILTERS
  /\ sortConfig' = DEFAULT_SORT
  /\ UNCHANGED <<tasks, error, isLoading, isHydrated, db, inflight,
                 uuids, now, faulted>>

\* clearError()
ClearError ==
  /\ calls < MaxCalls
  /\ calls' = calls + 1
  /\ lastCall' = Call("clearError", <<>>)
  /\ error' = NULL
  /\ UNCHANGED <<tasks, isLoading, isHydrated, filters, sortConfig, db, inflight,
                 uuids, now, faulted>>

\* A call that has returned a value (an asynchronous one: its promise
\* resolved with the value).
Returned(op, args, result) ==
  [op |-> op, args |-> args, threw |-> FALSE, result |-> result]

\* An asynchronous call whose promise rejected: the error reaches its caller.
Rejected(op, args) == [op |-> op, args |-> args, threw |-> TRUE]

\* Faulty variant: the selector sorts the store's own array in place.
GetFilteredTasksInPlace(t) ==
  /\ calls < MaxCalls
  /\ calls' = calls + 1
  /\ t \in now..MaxTime
  /\ now' = t
  /\ tasks' = ApplySort(tasks, sortConfig)
  /\ lastCall' = Returned("getFilteredTasks", <<>>,
                          ApplySort(ApplyFilters(tasks, filters, t), sortConfig))
  /\ UNCHANGED <<error, isLoading, isHydrated, filters, sortConfig, db,
                 inflight, uuids, faulted>>

\* getFilteredTasks(); t is what Date.now() returns to the overdue filter.
GetFilteredTasks(t) ==
  /\ calls < MaxCalls
  /\ calls' = calls + 1
  /\ t \in now..MaxTime
  /\ now' = t
  /\ lastCall' = Returned("getFilteredTasks", <<>>,
                          ApplySort(ApplyFilters(tasks, filters, t), sortConfig))
  /\ UNCHANGED <<tasks, error, isLoading, isHydrated, filters, sortConfig, db,
                 inflight, uuids, faulted>>

\* applyFilters(tasks, filters) called on its own; t is what Date.now()
\* returns to the overdue filter.
ApplyFiltersCall(t) ==
  /\ t \in now..MaxTime
  /\ now' = t
  /\ lastCall' = Returned("applyFilters", <<tasks, filters>>,
                          ApplyFilters(tasks, filters, t))
  /\ UNCHANGED <<tasks, error, isLoading, isHydrated, filters, sortConfig, db,
                 inflight, uuids, calls, faulted>>

\* filterOverdue(tasks, filters.showOverdue) called on its own.
FilterOverdueCall(t) ==
  /\ t \in now..MaxTime
  /\ now' = t
  /\ lastCall' = Returned("filterOverdue", <<tasks, filters.showOverdue>>,
                          FilterOverdue(tasks, filters.showOverdue, t))
  /\ UNCHANGED <<tasks, error, isLoading, isHydrated, filters, sortConfig, db,
                 inflight, uuids, calls, faulted>>

\* Faulty variant: the sorter sorts the array it is given, not a copy.
ApplySortCallInPlace(input) ==
  /\ lastCall' = Returned("applySort", <<input, sortConfig>>,
                          ApplySort(input, sortConfig))
  /\ tasks' = IF input = tasks THEN ApplySort(input, sortConfig) ELSE tasks
  /\ UNCHANGED <<error, isLoading, isHydrated, filters, sortConfig, db,
                 inflight, uuids, now, calls, faulted>>

\* applySort(input, sortConfig) called on its own; input is the collection
\* or what the last call returned.
ApplySortCall(input) ==
  /\ lastCall' = Returned("applySort", <<input, sortConfig>>,
                          ApplySort(input, sortConfig))
  /\ UNCHANGED <<tasks, error, isLoading, isHydrated, filters, sortConfig, db,
                 inflight, uuids, now, calls, faulted>>

\* hydrate() up to its await: set({ isLoading: true }) and loadTasks()
\* starts; q is the calls in flight when it is called.
HydrateStarts(q) ==
  /\ isLoading' = TRUE
  /\ inflight' = Append(q, LoadCall)

\* hydrate(), called by App on mount.
Hydrate ==
  /\ calls < MaxCalls
  /\ calls' = calls + 1
  /\ lastCall' = Call("hydrate", <<>>)
  /\ HydrateStarts(inflight)
  /\ UNCHANGED <<tasks, error, isHydrated, filters, sortConfig, db, uuids, now, faulted>>

\* The encoding of a parsed document that is no array.
NotAnArray == <<[notAnArray |-> TRUE]>>
IsArray(doc) == doc = <<>> \/ "notAnArray" \notin DOMAIN doc[1]

\* handleImport's reader.onload up to its first await: JSON.parse, the
\* Array.isArray test, then saveTasks(imported).  A document that is no
\* array throws to the catch, which alerts.
ImportFile(doc) ==
  /\ calls < MaxCalls
  /\ calls' = calls + 1
  /\ lastCall' = Call("handleImport", <<doc>>)
  /\ inflight' = IF IsArray(doc) THEN Append(inflight, SaveCall(doc, "import"))
                 ELSE inflight
  /\ UNCHANGED <<tasks, error, isLoading, isHydrated, filters, sortConfig, db,
                 uuids, now, faulted>>

\* ------------------------------------------------- IndexedDB, as db.ts uses it
\* Open requests on one database are served in the order they were made
\* (its connection queue), and each call creates its transaction in the
\* continuation of its own open request; transactions on the "tasks" store
\* run in the order they were created.  So the calls of inflight that have
\* a transaction form a prefix of it, and the first one is the one that runs.

\* Index of the call whose open request is served next; 0 if there is none.
FirstOpen ==
  IF \E i \in 1..Len(inflight) : inflight[i].phase = "open"
  THEN CHOOSE i \in 1..Len(inflight) :
         /\ inflight[i].phase = "open"
         /\ \A j \in 1..(i - 1) : inflight[j].phase # "open"
  ELSE 0

Remove(seq, i) == SubSeq(seq, 1, i - 1) \o SubSeq(seq, i + 1, Len(seq))

\* The elements of a sequence as a set.
ToSet(seq) == {seq[i] : i \in 1..Len(seq)}

\* Index of the first task store.add(task) throws on (DataError: the key
\* path "id" yields no valid key); 0 if there is none.
FirstInvalid(ts) ==
  IF \E i \in 1..Len(ts) : ~IsValidKey(ts[i].id)
  THEN CHOOSE i \in 1..Len(ts) :
         /\ ~IsValidKey(ts[i].id)
         /\ \A j \in 1..(i - 1) : IsValidKey(ts[j].id)
  ELSE 0

\* Some add request of the transaction finds its key already present
\* (ConstraintError): two of the records placed have the same id.
KeyClash(ts) == \E i, j \in 1..Len(ts) : i # j /\ ts[i].id = ts[j].id

\* Faulty variant: the transaction writes the records without store.clear().
CommittedNoClear(old, ts) ==
  {x \in old : \A i \in 1..Len(ts) : ts[i].id # x.id} \cup ToSet(ts)

\* The object store after a transaction of clear() and one add per record commits.
Committed(old, ts) == ToSet(ts)

\* store.getAll(): every record, in key order.
RECURSIVE GetAllFrom(_, _)
GetAllFrom(store, r) ==
  IF r > Len(KEYS) THEN <<>>
  ELSE (IF \E x \in store : x.id = KEYS[r]
        THEN <<CHOOSE x \in store : x.id = KEYS[r]>>
        ELSE <<>>) \o GetAllFrom(store, r + 1)

GetAll(store) == GetAllFrom(store, 1)

\* Faulty variant: the catch block reports the failure in the store.
SaveRejectedSetsError ==
  /\ error' = "Failed to persist tasks"
  /\ UNCHANGED <<tasks, isLoading, isHydrated>>

\* saveTasks rejected: the catch block of its caller runs, persistTasks'
\* (console.error) or handleImport's (console.error, alert); neither sets
\* a field of the store.
SaveRejected == UNCHANGED <<tasks, error, isLoading, isHydrated>>

\* Faulty variant: the records are read from the store when the transaction
\* is created, not handed over when saveTasks was called.
SaveOpenedReadsLate ==
  /\ FirstOpen # 0
  /\ inflight[FirstOpen].kind = "save"
  /\ LET i == FirstOpen
         k == FirstInvalid(tasks)
     IN  IF k = 0
         THEN /\ inflight' = [inflight EXCEPT ![i].phase = "txn",
                                              ![i].tasks = tasks,
                                              ![i].placed = Len(tasks)]
              /\ UNCHANGED faulted
         ELSE /\ inflight' = [inflight EXCEPT ![i].phase = "detached",
                                              ![i].tasks = tasks,
                                              ![i].placed = k - 1]
              /\ faulted' = TRUE
  /\ UNCHANGED <<tasks, error, isLoading, isHydrated>>
  /\ lastCall' = Call("saveOpened", <<>>)
  /\ UNCHANGED <<filters, sortConfig, db, uuids, now, calls>>

\* saveTasks: initDB() resolved; the promise executor creates the
\* transaction and places clear() and the add requests.  If store.add
\* throws, the executor stops there: the promise rejects, no handler is
\* attached, and the requests already placed stay in the transaction.
SaveOpened ==
  /\ FirstOpen # 0
  /\ inflight[FirstOpen].kind = "save"
  /\ LET i == FirstOpen
         k == FirstInvalid(inflight[i].tasks)
     IN  IF k = 0
         THEN /\ inflight' = [inflight EXCEPT ![i].phase = "txn",
                                              ![i].placed = Len(inflight[i].tasks)]
              /\ UNCHANGED faulted
         ELSE /\ inflight' = [inflight EXCEPT ![i].phase = "detached",
                                              ![i].placed = k - 1]
              /\ faulted' = TRUE
  /\ IF FirstInvalid(inflight[FirstOpen].tasks) = 0
     THEN UNCHANGED <<tasks, error, isLoading, isHydrated>>
     ELSE SaveRejected
  /\ lastCall' = Call("saveOpened", <<>>)
  /\ UNCHANGED <<filters, sortConfig, db, uuids, now, calls>>

\* saveTasks: initDB() rejected ("Failed to open database"); saveTasks
\* rethrows and persistTasks logs.
SaveOpenFailed ==
  /\ FirstOpen # 0
  /\ inflight[FirstOpen].kind = "save"
  /\ inflight' = Remove(inflight, FirstOpen)
  /\ faulted' = TRUE
  /\ SaveRejected
  /\ lastCall' = Call("saveOpenFailed", <<>>)
  /\ UNCHANGED <<filters, sortConfig, db, uuids, now, calls>>

\* The first call of inflight holds the transaction that runs.
SaveRuns ==
  /\ inflight # <<>>
  /\ inflight[1].kind = "save"
  /\ inflight[1].phase \in {"txn", "detached"}

Placed(c) == SubSeq(c.tasks, 1, c.placed)

\* The transaction of a saveTasks call has ended with the event op.  settled:
\* the promise the call returned is settled once the event is handled (by
\* the handler of the event, or earlier, when the executor threw); closed:
\* a handler has run db.close() on the call's connection.
TransactionEnded(op, phase, settled, closed) ==
  [op |-> op, args |-> <<phase>>, threw |-> FALSE,
   settled |-> settled, closed |-> closed]

\* The transaction commits.  If the executor finished, transaction.oncomplete
\* resolves the promise, and handleImport goes on to hydrate().
SaveCommitted ==
  /\ SaveRuns
  /\ ~KeyClash(Placed(inflight[1]))
  /\ db' = Committed(db, Placed(inflight[1]))
  /\ IF inflight[1].phase = "txn" /\ inflight[1].by = "import"
     THEN HydrateStarts(Tail(inflight))
     ELSE inflight' = Tail(inflight) /\ UNCHANGED isLoading
  /\ lastCall' = TransactionEnded("saveCommitted", inflight[1].phase,
                                  TRUE, inflight[1].phase = "txn")
  /\ UNCHANGED <<tasks, error, isHydrated, filters, sortConfig,
                 uuids, now, calls, faulted>>

\* A request of the transaction fails (a key clash, or a storage failure):
\* the error event reaches transaction.onerror, which rejects the promise,
\* and the transaction aborts, undoing its requests.
SaveRequestFailed ==
  /\ SaveRuns
  /\ inflight' = Tail(inflight)
  /\ faulted' = TRUE
  /\ IF inflight[1].phase = "txn"
     THEN SaveRejected
     ELSE UNCHANGED <<tasks, error, isLoading, isHydrated>>
  /\ lastCall' = TransactionEnded("saveRequestFailed", inflight[1].phase,
                                  TRUE, inflight[1].phase = "txn")
  /\ UNCHANGED <<filters, sortConfig, db, uuids, now, calls>>

\* The transaction aborts with no request in error (the commit fails): only
\* the abort event fires, saveTasks listens to none, the promise never settles.
SaveAborted ==
  /\ SaveRuns
  /\ inflight' = Tail(inflight)
  /\ faulted' = TRUE
  /\ lastCall' = TransactionEnded("saveAborted", inflight[1].phase,
                                  inflight[1].phase = "detached", FALSE)
  /\ UNCHANGED <<tasks, error, isLoading, isHydrated, filters, sortConfig, db,
                 uuids, now, calls>>

\* loadTasks: initDB() resolved; the read transaction and getAll() are placed.
LoadOpened ==
  /\ FirstOpen # 0
  /\ inflight[FirstOpen].kind = "load"
  /\ inflight' = [inflight EXCEPT ![FirstOpen].phase = "txn"]
  /\ lastCall' = Call("loadOpened", <<>>)
  /\ UNCHANGED <<tasks, error, isLoading, isHydrated, filters, sortConfig, db,
                 uuids, now, calls, faulted>>

\* Faulty variant: the loaded records are put in front of the in-memory ones.
HydrateLoadedMerges(ts) ==
  /\ tasks' = ts \o tasks
  /\ isLoading' = FALSE
  /\ isHydrated' = TRUE
  /\ error' = NULL

\* hydrate after loadTasks resolved with ts.
HydrateLoaded(ts) ==
  /\ tasks' = ts
  /\ isLoading' = FALSE
  /\ isHydrated' = TRUE
  /\ error' = NULL

\* Faulty variant: the catch block does not reset isLoading.
HydrateFailedStillLoading ==
  /\ isHydrated' = TRUE
  /\ error' = "Failed to load saved tasks"
  /\ UNCHANGED <<tasks, isLoading>>

\* hydrate after loadTasks rejected.
HydrateFailed ==
  /\ isLoading' = FALSE
  /\ isHydrated' = TRUE
  /\ error' = "Failed to load saved tasks"
  /\ UNCHANGED tasks

\* loadTasks: initDB() rejected inside the try block: the catch returns [].
LoadOpenFailed ==
  /\ FirstOpen # 0
  /\ inflight[FirstOpen].kind = "load"
  /\ inflight' = Remove(inflight, FirstOpen)
  /\ HydrateLoaded(<<>>)
  /\ lastCall' = Returned("loadOpenFailed", <<>>, <<>>)
  /\ UNCHANGED <<filters, sortConfig, db, uuids, now, calls, faulted>>

LoadRuns ==
  /\ inflight # <<>>
  /\ inflight[1].kind = "load"
  /\ inflight[1].phase = "txn"

\* request.onsuccess: loadTasks resolves with request.result.
LoadSucceeded ==
  /\ LoadRuns
  /\ inflight' = Tail(inflight)
  /\ HydrateLoaded(GetAll(db))
  /\ lastCall' = Returned("loadSucceeded", <<>>, GetAll(db))
  /\ UNCHANGED <<filters, sortConfig, db, uuids, now, calls, faulted>>

\* request.onerror: the promise loadTasks returned (without awaiting it)
\* rejects, so the rejection passes its catch and reaches hydrate's.
\* lastCall records how the loadTasks call ended.
LoadRequestFailed ==
  /\ LoadRuns
  /\ inflight' = Tail(inflight)
  /\ HydrateFailed
  /\ lastCall' = Rejected("loadRequestFailed", <<>>)
  /\ UNCHANGED <<filters, sortConfig, db, uuids, now, calls, faulted>>

\* A read transaction that aborts while getAll is pending fires an error
\* event at the request (LoadRequestFailed); once the request has succeeded
\* the promise is resolved whatever the transaction does next.  So, unlike
\* saveTasks, which listens on the transaction, loadTasks always settles.

\* clearTasks() up to its first await.
ClearCall ==
  [kind |-> "clear", tasks |-> <<>>, phase |-> "open", placed |-> 0, by |-> "clear"]

\* handleClear up to its first await: window.confirm, then clearTasks().
HandleClear(confirmed) ==
  /\ calls < MaxCalls
  /\ calls' = calls + 1
  /\ lastCall' = Call("handleClear", <<confirmed>>)
  /\ inflight' = IF confirmed THEN Append(inflight, ClearCall) ELSE inflight
  /\ UNCHANGED <<tasks, error, isLoading, isHydrated, filters, sortConfig, db,
                 uuids, now, faulted>>

\* clearTasks: initDB() resolved; the transaction and store.clear() are placed.
ClearOpened ==
  /\ FirstOpen # 0
  /\ inflight[FirstOpen].kind = "clear"
  /\ inflight' = [inflight EXCEPT ![FirstOpen].phase = "txn"]
  /\ lastCall' = Call("clearOpened", <<>>)
  /\ UNCHANGED <<tasks, error, isLoading, isHydrated, filters, sortConfig, db,
                 uuids, now, calls, faulted>>

\* clearTasks: initDB() rejected; clearTasks rethrows and handleClear alerts.
ClearOpenFailed ==
  /\ FirstOpen # 0
  /\ inflight[FirstOpen].kind = "clear"
  /\ inflight' = Remove(inflight, FirstOpen)
  /\ lastCall' = Call("clearOpenFailed", <<>>)
  /\ UNCHANGED <<tasks, error, isLoading, isHydrated, filters, sortConfig, db,
                 uuids, now, calls, faulted>>

\* request.onsuccess of store.clear(): clearTasks resolves, before its
\* transaction has committed, and handleClear goes on to hydrate().
ClearSucceeded ==
  /\ inflight # <<>>
  /\ inflight[1].kind = "clear"
  /\ inflight[1].phase = "txn"
  /\ HydrateStarts([inflight EXCEPT ![1].phase = "done"])
  /\ lastCall' = Call("clearSucceeded", <<>>)
  /\ UNCHANGED <<tasks, error, isHydrated, filters, sortConfig, db,
                 uuids, now, calls, faulted>>

\* request.onerror of store.clear(): clearTasks rejects, handleClear alerts;
\* the transaction aborts.
ClearRequestFailed ==
  /\ inflight # <<>>
  /\ inflight[1].kind = "clear"
  /\ inflight[1].phase = "txn"
  /\ inflight' = Tail(inflight)
  /\ lastCall' = Call("clearRequestFailed", <<>>)
  /\ UNCHANGED <<tasks, error, isLoading, isHydrated, filters, sortConfig, db,
                 uuids, now, calls, faulted>>

\* The transaction of a clear whose request succeeded ends: it commits
\* (the object store is empty) or its commit fails (the store is as it was).
ClearEnded(committed) ==
  /\ inflight # <<>>
  /\ inflight[1].kind = "clear"
  /\ inflight[1].phase = "done"
  /\ inflight' = Tail(inflight)
  /\ db' = IF committed THEN {} ELSE db
  /\ lastCall' = Call("clearEnded", <<committed>>)
  /\ UNCHANGED <<tasks, error, isLoading, isHydrated, filters, sortConfig,
                 uuids, now, calls, faulted>>

\* ------------------------------------------------------------------ inputs
\* addTask arguments: <<title, description, priority, dueDate>>.
AddArgs ==
  << <<<<>>, <<"d">>, Undefined, NoNumber>>,
     <<<<" ">>, <<>>, "high", 1>>,
     <<<<" ", "a", " ">>, <<" ", "d">>, "high", 1>> >>

\* id arguments: falsy, the first identifier, the second.
IdArgs == {"", "u1", "u2"}

\* updateTask patches.
PatchArgs ==
  << <<>>,
     UndefinedPatch,
     [status |-> "done"],
     [title |-> <<"c">>, priority |-> "low"],
     [title |-> <<" ">>],
     [id |-> "u2"],
     [id |-> Undefined],
     [createdAt |-> 0] >>

StatusArgs == TaskStatus \cup {Undefined}

\* A record of an imported document; the document itself may be anything.
Imported(id, title) ==
  [id |-> id, title |-> title, description |-> <<>>, status |-> "todo",
   createdAt |-> 1, priority |-> Undefined, dueDate |-> NoNumber]

\* Imported documents: no array; an array whose second record has no id.
ImportArgs ==
  << NotAnArray,
     <<Imported("i1", <<"a">>), Imported(Undefined, <<"b">>)>> >>

\* setFilters patches.
FilterArgs ==
  << <<>>,
     [status |-> "done"],
     [search |-> <<"A">>, showOverdue |-> TRUE],
     [priority |-> "high"] >>

\* setSortConfig arguments; the last names no field of a task.
SortArgs ==
  << [field |-> "title", direction |-> "asc"],
     [field |-> "dueDate", direction |-> "desc"],
     [field |-> "priority", direction |-> "desc"],
     [field |-> "createdAt", direction |-> "asc"],
     [field |-> "status", direction |-> "asc"] >>

\* A caller can name an identifier only once crypto.randomUUID() has returned it.
Drawn(id) == \E n \in 1..uuids : UUIDS[n] = id

PatchAllowed(updates) ==
  "id" \in DOMAIN updates => (updates.id = Undefined \/ Drawn(updates.id))

\* ------------------------------------------------------------ specifications
Mutations ==
  \/ \E a \in 1..Len(AddArgs), t \in 1..MaxTime :
       AddTask(AddArgs[a][1], AddArgs[a][2], AddArgs[a][3], AddArgs[a][4], t)
  \/ \E id \in IdArgs, p \in 1..Len(PatchArgs) :
       PatchAllowed(PatchArgs[p]) /\ UpdateTask(id, PatchArgs[p])
  \/ \E id \in IdArgs : DeleteTask(id)
  \/ \E id \in IdArgs, s \in StatusArgs : MoveTask(id, s)

SaveSteps ==
  \/ SaveOpened
  \/ SaveOpenFailed
  \/ SaveCommitted
  \/ SaveRequestFailed
  \/ SaveAborted

LoadSteps ==
  \/ LoadOpened
  \/ LoadOpenFailed
  \/ LoadSucceeded
  \/ LoadRequestFailed

Imports == \E d \in 1..Len(ImportArgs) : ImportFile(ImportArgs[d])

Next == Mutations \/ Hydrate \/ Imports \/ SaveSteps \/ LoadSteps

\* Every store call and every adapter callback.
Spec == Init /\ [][Next]_vars

ClearSteps ==
  \/ ClearOpened
  \/ ClearOpenFailed
  \/ ClearSucceeded
  \/ ClearRequestFailed
  \/ \E committed \in BOOLEAN : ClearEnded(committed)

\* Imported documents of the application runs: those above and a valid array.
ImportDocs == ImportArgs \o << <<Imported("i2", <<"b">>)>> >>

\* App's effect with no dependencies: hydrate() once, after the first render.
Mount == lastCall.op = "create" /\ Hydrate

Mounted == lastCall.op # "create"

\* Faulty variant: the gate forgets isLoading.
ReadyWhenHydrated == isHydrated

\* App renders the board (and its forms) only when this holds.
Ready == isHydrated /\ ~isLoading

\* What the user does on the board, and with the data controls.
BoardCalls ==
  \/ \E a \in 1..Len(AddArgs), t \in 1..MaxTime :
       AddTask(AddArgs[a][1], AddArgs[a][2], AddArgs[a][3], AddArgs[a][4], t)
  \/ \E id \in IdArgs : DeleteTask(id)

DataCalls ==
  \/ \E d \in 1..Len(ImportDocs) : ImportFile(ImportDocs[d])
  \/ \E confirmed \in BOOLEAN : HandleClear(confirmed)

NextApp ==
  \/ Mount
  \/ Ready /\ BoardCalls
  \/ Mounted /\ DataCalls
  \/ SaveSteps
  \/ LoadSteps
  \/ ClearSteps

\* A run of the application: the store is created, App mounts, the user
\* acts.  The browser serves every open request and ends every transaction:
\* while an adapter call is in flight, one of its callbacks eventually runs.
SpecApp ==
  Init /\ [][NextApp]_vars /\ WF_vars(SaveSteps \/ LoadSteps \/ ClearSteps)

NextBoard ==
  \/ Mount
  \/ Ready /\ Mutations
  \/ Mounted /\ DataCalls
  \/ SaveSteps
  \/ LoadSteps
  \/ ClearSteps

\* The application with every mutation the board's components can issue
\* (TaskForm, the task cards, drag and drop), and without fairness.
SpecBoard == Init /\ [][NextBoard]_vars

ViewCalls ==
  \/ \E f \in 1..Len(FilterArgs) : SetFilters(FilterArgs[f])
  \/ \E c \in 1..Len(SortArgs) : SetSortConfig(SortArgs[c])
  \/ ResetFilters
  \/ ClearError

NextView == ViewCalls \/ BoardCalls \/ SaveSteps

\* The filter, sort and error calls of the board, between adds and deletes.
SpecView == Init /\ [][NextView]_vars

\* The tasks of a hydrated board: they differ in every field the filters
\* and the sorters read; one due date is 0, one lies before 1970.
BoardTasks ==
  { [id |-> "u1", title |-> <<"c">>, description |-> <<"a">>, status |-> "todo",
     createdAt |-> 1, priority |-> "high", dueDate |-> 1],
    [id |-> "u2", title |-> <<"a">>, description |-> <<>>, status |-> "done",
     createdAt |-> 0, priority |-> Undefined, dueDate |-> NoNumber],
    [id |-> "u3", title |-> <<"A", " ">>, description |-> <<>>, status |-> "done",
     createdAt |-> 1, priority |-> "low", dueDate |-> 0],
    [id |-> "u4", title |-> <<"d">>, description |-> <<>>, status |-> "inProgress",
     createdAt |-> 0, priority |-> "high", dueDate |-> 0 - 2] }

\* Largest collection of a hydrated board.
MaxBoard == 3

Boards ==
  {ts \in UNION {[1..n -> BoardTasks] : n \in 0..MaxBoard} :
     \A i, j \in 1..Len(ts) : ts[i].id = ts[j].id => i = j}

\* The store after a hydration that loaded a board.
InitSelect ==
  /\ tasks \in Boards
  /\ db = ToSet(tasks)
  /\ inflight = <<>>
  /\ error = NULL
  /\ isLoading = FALSE
  /\ isHydrated = TRUE
  /\ filters = DEFAULT_FILTERS
  /\ sortConfig = DEFAULT_SORT
  /\ uuids = 0
  /\ now = 1
  /\ calls = 0
  /\ faulted = FALSE
  /\ lastCall = Call("hydrate", <<>>)

NextSelect ==
  \/ \E t \in 1..MaxTime : GetFilteredTasks(t)
  \/ \E f \in 1..Len(FilterArgs) : SetFilters(FilterArgs[f])
  \/ \E c \in 1..Len(SortArgs) : SetSortConfig(SortArgs[c])
  \/ \E id \in IdArgs : DeleteTask(id)
  \/ SaveSteps

\* The selector, between filter and sort changes and deletions.
SpecSelect == InitSelect /\ [][NextSelect]_vars

\* handleImport on a hydrated board: the file reader delivers a document
\* while the user goes on adding and deleting on the board App shows.
NextImport ==
  \/ \E d \in 1..Len(ImportDocs) : ImportFile(ImportDocs[d])
  \/ Ready /\ BoardCalls
  \/ SaveSteps
  \/ LoadSteps

\* Imports between the calls of the board; every load is an import's hydrate().
SpecImport == InitSelect /\ [][NextImport]_vars

\* The tasks the filters and the sorters are applied to: those of the
\* board and one more, of medium priority, that ties with others on
\* title, creation time and (missing) due date.
PoolTasks ==
  BoardTasks \cup
  { [id |-> "u5", title |-> <<"a">>, description |-> <<>>, status |-> "todo",
     createdAt |-> 1, priority |-> "medium", dueDate |-> NoNumber] }

\* Arrays of at most MaxBoard tasks; a task may occur more than once.
Lists == UNION {[1..n -> PoolTasks] : n \in 0..MaxBoard}

\* Filter specifications: the search is empty, blank, or matches up to case.
FilterSpecs ==
  [search : {<<>>, <<" ">>, <<"D">>, <<"a", " ">>},
   status : {"all", "done", "inProgress"},
   priority : {"all", "high", "low"},
   showOverdue : BOOLEAN]

\* Sort specifications: the four fields, and two values that name none.
SortSpecs ==
  [field : {"createdAt", "dueDate", "priority", "title", "status", Undefined},
   direction : {"asc", "desc"}]

\* Any array, any filter specification, any sort specification.
InitPure ==
  /\ tasks \in Lists
  /\ db = {}
  /\ inflight = <<>>
  /\ error = NULL
  /\ isLoading = FALSE
  /\ isHydrated = FALSE
  /\ uuids = 0
  /\ calls = 0
  /\ faulted = FALSE
  /\ lastCall = Call("create", <<>>)

InitFilter ==
  /\ InitPure
  /\ filters \in FilterSpecs
  /\ sortConfig = DEFAULT_SORT
  /\ now \in 0..MaxTime

NextFilter ==
  \/ \E t \in 0..MaxTime : ApplyFiltersCall(t)
  \/ \E t \in 0..MaxTime : FilterOverdueCall(t)

\* The filter engine on its own.
SpecFilter == InitFilter /\ [][NextFilter]_vars

InitSort ==
  /\ InitPure
  /\ filters = DEFAULT_FILTERS
  /\ sortConfig \in SortSpecs
  /\ now = 1

NextSort ==
  \/ ApplySortCall(tasks)
  \/ lastCall.op = "applySort" /\ ApplySortCall(lastCall.result)

\* The sort engine on its own: a sort of the array, then sorts of the result.
SpecSort == InitSort /\ [][NextSort]_vars

\* The page is loaded again, once the saves of the page before have run:
\* the module of the store is evaluated anew, create() gives the initial
\* state; the database is what it was.
Reload ==
  /\ lastCall.op # "create"
  /\ inflight = <<>>
  /\ tasks' = <<>>
  /\ error' = NULL
  /\ isLoading' = FALSE
  /\ isHydrated' = FALSE
  /\ filters' = DEFAULT_FILTERS
  /\ sortConfig' = DEFAULT_SORT
  /\ lastCall' = Call("create", <<>>)
  /\ UNCHANGED <<db, inflight, uuids, now, calls, faulted>>

\* The title of the story ("Buy milk"), in the letters of the model.
BuyMilk == <<"D", "a", " ", "c">>

\* Number of calls of the story made so far; the story has six, and
\* starts with the call budget it needs.
Told == calls - (MaxCalls - 6)

\* An empty store over an empty database.
InitStory ==
  /\ tasks = <<>>
  /\ error = NULL
  /\ isLoading = FALSE
  /\ isHydrated = FALSE
  /\ filters = DEFAULT_FILTERS
  /\ sortConfig = DEFAULT_SORT
  /\ db = {}
  /\ inflight = <<>>
  /\ uuids = 0
  /\ now = 1
  /\ calls = MaxCalls - 6
  /\ faulted = FALSE
  /\ lastCall = Call("create", <<>>)

\* add, move to done, filter by done, read the view, delete, reload, load;
\* the saves run as the browser schedules them.
NextStory ==
  \/ Told = 0 /\ \E t \in 1..MaxTime : AddTask(BuyMilk, <<>>, Undefined, NoNumber, t)
  \/ Told = 1 /\ MoveTask(RandomUUID(1), "done")
  \/ Told = 2 /\ SetFilters([status |-> "done"])
  \/ Told = 3 /\ \E t \in 1..MaxTime : GetFilteredTasks(t)
  \/ Told = 4 /\ DeleteTask(RandomUUID(1))
  \/ Told = 5 /\ Reload
  \/ Told = 5 /\ Mount
  \/ SaveSteps
  \/ LoadSteps

SpecStory == InitStory /\ [][NextStory]_vars

\* A call with an argument of the wrong type: addTask with a title and
\* an undefined description.
OddCalls ==
  \E t \in 1..MaxTime : AddTask(<<"a">>, NoText, Undefined, NoNumber, t)

NextCalls == Mutations \/ OddCalls \/ SaveSteps

\* add/update/delete/move with any arguments, and the saves they start.
SpecCalls == Init /\ [][NextCalls]_vars

\* add/update/delete/move and the saves they start; no hydration.
NextMut == Mutations \/ SaveSteps

SpecMut == Init /\ [][NextMut]_vars

\* One saveTasks call on its own: persistTasks has just been called on any
\* collection of at most MaxLen records, over any persisted collection.
MaxLen == 2

SaveRecords ==
  {Imported(id, title) :
     id \in {"u1", "u2", "u3", Undefined}, title \in {<<"a">>, <<"c">>}}

Collections == UNION {[1..n -> SaveRecords] : n \in 0..MaxLen}

\* What the object store can hold: records with valid, distinct keys.
Stores ==
  {st \in SUBSET {r \in SaveRecords : IsValidKey(r.id)} :
     \A x, y \in st : x.id = y.id => x = y}

InitSave ==
  /\ tasks \in Collections
  /\ db \in Stores
  /\ inflight = <<SaveCall(tasks, "store")>>
  /\ error = NULL
  /\ isLoading = FALSE
  /\ isHydrated = TRUE
  /\ filters = DEFAULT_FILTERS
  /\ sortConfig = DEFAULT_SORT
  /\ uuids = 0
  /\ now = 1
  /\ calls = 0
  /\ faulted = FALSE
  /\ lastCall = Call("persistTasks", <<>>)

SpecSave == InitSave /\ [][SaveSteps]_vars

\* Collections whose records have valid, distinct ids.
ValidCollections ==
  {ts \in Collections :
     /\ \A i \in 1..Len(ts) : IsValidKey(ts[i].id)
     /\ \A i, j \in 1..Len(ts) : ts[i].id = ts[j].id => i = j}

\* saveTasks(X) then loadTasks(), as handleImport runs them: the board
\* holds X and a file that holds X (an export of the board) has just been
\* imported, over any persisted collection.
InitRound ==
  /\ tasks \in ValidCollections
  /\ db \in Stores
  /\ inflight = <<SaveCall(tasks, "import")>>
  /\ error = NULL
  /\ isLoading = FALSE
  /\ isHydrated = TRUE
  /\ filters = DEFAULT_FILTERS
  /\ sortConfig = DEFAULT_SORT
  /\ uuids = 0
  /\ now = 1
  /\ calls = 0
  /\ faulted = FALSE
  /\ lastCall = Call("handleImport", <<tasks>>)

SpecRound == InitRound /\ [][SaveSteps \/ LoadSteps]_vars

\* The four filters of the engine, each callable on its own.
STAGES == {"search", "status", "priority", "overdue"}

\* One filter applied to ts under the specification f, when Date.now() returns t.
Stage(name, ts, f, t) ==
  CASE name = "search" -> FilterBySearch(ts, f.search)
    [] name = "status" -> FilterByStatus(ts, f.status)
    [] name = "priority" -> FilterByPriority(ts, f.priority)
    [] name = "overdue" -> FilterOverdue(ts, f.showOverdue, t)

\* The orders the four filters can be applied in.
StageOrders ==
  {o \in [1..Cardinality(STAGES) -> STAGES] :
     \A i, j \in 1..Cardinality(STAGES) : o[i] = o[j] => i = j}

\* filtered = tasks; then filtered = <filter>(filtered, ...) for each
\* filter of order in turn, as applyFilters does for its own order.
RECURSIVE Staged(_, _, _, _)
Staged(order, ts, f, t) ==
  IF order = <<>> THEN ts
  ELSE Staged(Tail(order), Stage(Head(order), ts, f, t), f, t)

\* The four filters called one after the other in the given order, on the
\* arguments applyFilters was just called with, the clock standing still.
FilterStagesCall(order) ==
  /\ lastCall.op = "applyFilters"
  /\ lastCall' = Returned("filterStages", <<lastCall.args[1], filters, order>>,
                          Staged(order, lastCall.args[1], filters, now))
  /\ UNCHANGED <<tasks, error, isLoading, isHydrated, filters, sortConfig, db,
                 inflight, uuids, now, calls, faulted>>

\* applyFilters called on what applyFilters has just returned, the clock
\* standing still in between.
ApplyFiltersAgain ==
  /\ lastCall.op = "applyFilters"
  /\ lastCall' = Returned("applyFilters", <<lastCall.result, filters>>,
                          ApplyFilters(lastCall.result, filters, now))
  /\ UNCHANGED <<tasks, error, isLoading, isHydrated, filters, sortConfig, db,
                 inflight, uuids, now, calls, faulted>>

\* Arrays of at most MaxLen tasks; a task may occur more than once.
ShortLists == UNION {[1..n -> BoardTasks] : n \in 0..MaxLen}

\* The filter specifications, the blank search left out: it is trimmed to
\* the empty one before anything else is done with it.
StageSpecs == {f \in FilterSpecs : f.search # <<" ">>}

InitStages ==
  /\ InitPure
  /\ tasks \in ShortLists
  /\ filters \in StageSpecs
  /\ sortConfig = DEFAULT_SORT
  /\ now = 0

NextStages ==
  \/ \E t \in 0..MaxTime : ApplyFiltersCall(t)
  \/ ApplyFiltersAgain
  \/ \E o \in StageOrders : FilterStagesCall(o)

\* applyFilters, then its repetition or the four filters in any order.
SpecStages == InitStages /\ [][NextStages]_vars

\* ------------------------------------------------------------ retryWithBackoff
\* The default of maxRetries, which every caller gets.
MAX_RETRIES == 2

\* The default of baseDelay, in milliseconds.
BASE_DELAY == 1000

\* Error messages, as sequences of their words.
API_KEY == <<"API", "key">>

\* What fn() can throw: errors of the OpenAI client, and a value that is
\* no Error object.
Thrown ==
  { [isError |-> TRUE, message |-> <<"429", "Rate", "limit">>],
    [isError |-> TRUE, message |-> <<"401", "Incorrect", "API", "key", "provided">>],
    [isError |-> FALSE, message |-> <<"aborted">>] }

\* How one call of fn() ends: its promise resolves with a value or rejects.
Outcomes ==
  {[resolved |-> TRUE, value |-> v] : v \in {"summary", "analysis"}}
    \cup {[resolved |-> FALSE, value |-> e] : e \in Thrown}

\* Math.pow(2, n)
RECURSIVE Pow2(_)
Pow2(n) == IF n = 0 THEN 1 ELSE 2 * Pow2(n - 1)

\* Faulty variant: no failure counts as an authentication failure.
IsAuthErrorNever(e) == FALSE

\* error instanceof Error && error.message.includes("API key")
IsAuthError(e) == e.isError /\ Includes(e.message, API_KEY)

\* The loop of retryWithBackoff from the iteration attempt on; outcomes[k]
\* is how the k-th call of fn() ends, waits the delays slept so far.
\* The result tells how the call ends (threw, with value the result or the
\* error), how many times fn was called and the delays, in order.
RECURSIVE RetryFrom(_, _, _, _, _)
RetryFrom(attempt, outcomes, maxRetries, baseDelay, waits) ==
  IF attempt > maxRetries
  THEN [threw |-> TRUE,
        value |-> [isError |-> TRUE, message |-> <<"Retry", "failed">>],
        tried |-> attempt, waits |-> waits]
  ELSE LET r == outcomes[attempt + 1]
       IN  IF r.resolved
           THEN [threw |-> FALSE, value |-> r.value,
                 tried |-> attempt + 1, waits |-> waits]
           ELSE IF attempt = maxRetries \/ IsAuthError(r.value)
           THEN [threw |-> TRUE, value |-> r.value,
                 tried |-> attempt + 1, waits |-> waits]
           ELSE RetryFrom(attempt + 1, outcomes, maxRetries, baseDelay,
                          Append(waits, baseDelay * Pow2(attempt)))

\* retryWithBackoff(fn, maxRetries, baseDelay)
RetryWithBackoff(outcomes, maxRetries, baseDelay) ==
  RetryFrom(0, outcomes, maxRetries, baseDelay, <<>>)

\* One call of retryWithBackoff, run to its end.
RetryCall(outcomes, maxRetries, baseDelay) ==
  /\ lastCall' = Returned("retryWithBackoff", <<outcomes, maxRetries, baseDelay>>,
                          RetryWithBackoff(outcomes, maxRetries, baseDelay))
  /\ UNCHANGED <<tasks, error, isLoading, isHydrated, filters, sortConfig, db,
                 inflight, uuids, now, calls, faulted>>

\* What fn() does call after call: one outcome for each call it can get.
OutcomeRuns == [1..(MAX_RETRIES + 1) -> Outcomes]

NextRetry ==
  \E o \in OutcomeRuns, m \in 0..MAX_RETRIES, d \in {1, BASE_DELAY} :
    RetryCall(o, m, d)

\* Calls of retryWithBackoff, whatever the wrapped operation does.
SpecRetry == Init /\ [][NextRetry]_vars

\* ==================================================================== claims
\* The step just taken was the store call op.
Did(op) == lastCall'.op = op
Arg(n) == lastCall'.args[n]

\* A persistence call was started by this step, for the collection ts.
StartsSave(ts) == inflight' = Append(inflight, SaveCall(ts, "store"))

\* C1: after add/update/delete/move calls, once every save they started has
\* finished and none of them failed, the persisted collection is the
\* in-memory collection (as a set of records), however the saves overlapped.
C1_SavesConverge == (inflight = <<>> /\ ~faulted) => db = ToSet(tasks)

\* Three calls, each with a save that committed; the last removed a record.
C1_Witness ==
  /\ inflight = <<>>
  /\ ~faulted
  /\ calls = 3
  /\ lastCall.op = "saveCommitted"
  /\ Len(tasks) = 1
  /\ db = ToSet(tasks)

\* C2: at every moment the persisted collection is one complete collection
\* that was passed to saveTasks, or empty (the initial store, a cleared one):
\* never part of a collection, never two records with the same id.
\* As the store starts empty: every step leaves it as it is, or empty, or
\* holding exactly the records of a collection passed to a call in flight.
C2_PersistedWhole ==
  /\ [][\/ db' = db
        \/ db' = {}
        \/ \E i \in 1..Len(inflight) :
             /\ inflight[i].kind = "save"
             /\ db' = ToSet(inflight[i].tasks)]_vars
  /\ [](\A x, y \in db : x.id = y.id => x = y)

\* C3: saveTasks(tasks) is all-or-nothing: a call that does not resolve
\* leaves the persisted collection as it was, and a call that resolves
\* leaves exactly the given records.
C3_SaveAllOrNothing ==
  /\ [][db' # db => ~faulted']_vars
  /\ []((inflight = <<>> /\ ~faulted) => db = ToSet(tasks))

\* C4: no two tasks of the in-memory collection have the same id.
C4_UniqueIds ==
  \A i, j \in 1..Len(tasks) : tasks[i].id = tasks[j].id => i = j

\* C5: every task of the collection has a title that is non-empty after trimming.
C5_TitlesNonBlank == \A i \in 1..Len(tasks) : Trim(tasks[i].title) # <<>>

\* C6: a task keeps its createdAt from the add that created it until its
\* deletion: across every step, a task still in the collection (same id)
\* has the createdAt it had.
C6_CreatedAtFixed ==
  [][\A i \in 1..Len(tasks), j \in 1..Len(tasks') :
       tasks[i].id = tasks'[j].id => tasks'[j].createdAt = tasks[i].createdAt]_vars

\* C7: add with a title that is empty or only whitespace changes neither
\* the collection nor filters, sortConfig, isLoading, isHydrated, sets
\* error to the validation message and starts no persistence call.
C7_AddBlankTitle ==
  [][(Did("addTask") /\ Trim(Arg(1)) = <<>>) =>
       /\ tasks' = tasks
       /\ storeView' = storeView
       /\ error' = "Task title is required"
       /\ inflight' = inflight
       /\ db' = db]_vars

\* A whitespace-only title was refused while the collection held a task.
C7_Witness ==
  /\ lastCall.op = "addTask"
  /\ lastCall.args[1] = <<" ">>
  /\ error = "Task title is required"
  /\ Len(tasks) = 1

\* C8: add with a title that is non-empty after trimming appends exactly
\* one task at the end, with status todo, the trimmed title and an id no
\* task of the collection has; the tasks already there are unchanged and
\* in order, and error becomes null.  So while only add calls have
\* succeeded, all ids are distinct.
C8_AddAppends ==
  /\ [][(Did("addTask") /\ Trim(Arg(1)) # <<>>) =>
          /\ Len(tasks') = Len(tasks) + 1
          /\ SubSeq(tasks', 1, Len(tasks)) = tasks
          /\ tasks'[Len(tasks')].status = "todo"
          /\ tasks'[Len(tasks')].title = Trim(Arg(1))
          /\ \A i \in 1..Len(tasks) : tasks[i].id # tasks'[Len(tasks')].id
          /\ error' = NULL]_vars
  /\ [](calls = uuids => C4_UniqueIds)

\* A second task was added, its title trimmed.
C8_Witness ==
  /\ lastCall.op = "addTask"
  /\ lastCall.args[1] = <<" ", "a", " ">>
  /\ Len(tasks) = 2
  /\ tasks[2].title = <<"a">>
  /\ tasks[2].id # tasks[1].id
  /\ error = NULL

\* The patch has no field (or is no object at all).
NoFields(updates) == IsNoObject(updates) \/ DOMAIN updates = {}

\* C9: update(id, patch) sets error, leaves the collection unchanged and
\* starts no persistence call when no task has that id or the patch has no
\* fields; otherwise the task with that id takes the fields of the patch,
\* every other task is unchanged, the order is kept, error becomes null
\* and a persistence call is started.
C9_Update ==
  [][Did("updateTask") =>
       IF (\A i \in 1..Len(tasks) : tasks[i].id # Arg(1)) \/ NoFields(Arg(2))
       THEN /\ error' # NULL
            /\ tasks' = tasks
            /\ inflight' = inflight
       ELSE /\ Len(tasks') = Len(tasks)
            /\ \A i \in 1..Len(tasks) :
                 IF tasks[i].id = Arg(1)
                 THEN \A f \in TaskFields :
                        tasks'[i][f] =
                          IF f \in DOMAIN Arg(2) THEN Arg(2)[f] ELSE tasks[i][f]
                 ELSE tasks'[i] = tasks[i]
            /\ error' = NULL
            /\ StartsSave(tasks')]_vars

\* The second of two tasks was patched (title and priority); the first kept its own.
C9_Witness ==
  /\ lastCall.op = "updateTask"
  /\ lastCall.args[1] = "u2"
  /\ Len(tasks) = 2
  /\ tasks[2].title = <<"c">>
  /\ tasks[2].priority = "low"
  /\ tasks[1].title = <<"a">>
  /\ error = NULL

\* C10: move(id, newStatus) on an existing task changes only the status of
\* that task, to newStatus: its other fields, every other task and the
\* order of the collection are unchanged.
C10_MoveOnlyStatus ==
  [][(Did("moveTask") /\ TaskExists(tasks, Arg(1)) /\ Arg(2) \in TaskStatus) =>
       /\ Len(tasks') = Len(tasks)
       /\ \A i \in 1..Len(tasks) :
            IF tasks[i].id = Arg(1)
            THEN /\ tasks'[i].status = Arg(2)
                 /\ \A f \in TaskFields \ {"status"} : tasks'[i][f] = tasks[i][f]
            ELSE tasks'[i] = tasks[i]]_vars

\* The first of two tasks was moved to done; the second is still todo.
C10_Witness ==
  /\ lastCall.op = "moveTask"
  /\ lastCall.args = <<"u1", "done">>
  /\ Len(tasks) = 2
  /\ tasks[1].status = "done"
  /\ tasks[2].status = "todo"

\* This step leaves the collection, the error field and the persistence
\* calls in flight as the outcome r says.
SameAs(r) ==
  /\ tasks' = r.tasks
  /\ error' = r.error
  /\ inflight' = r.inflight

\* C11 (as claimed): for every id, in the collection or not, and every
\* status s, move(id, s) leaves tasks, error and the started persistence
\* calls as update(id, {status: s}) would from the same state.
C11_MoveIsUpdate ==
  [][(Did("moveTask") /\ Arg(2) \in TaskStatus) =>
       SameAs(UpdateOutcome(Arg(1), [status |-> Arg(2)]))]_vars

\* C11 (amended): for every non-empty id that some task of the collection
\* has and every status s, move(id, s) leaves tasks, error and the started
\* persistence calls as update(id, {status: s}) would from the same state.
C11_MoveIsUpdateOfPresent ==
  [][(/\ Did("moveTask")
      /\ Arg(2) \in TaskStatus
      /\ ~Falsy(Arg(1))
      /\ TaskExists(tasks, Arg(1))) =>
       SameAs(UpdateOutcome(Arg(1), [status |-> Arg(2)]))]_vars

\* The second of two tasks was moved to inProgress and its save was started.
C11_Witness ==
  /\ lastCall.op = "moveTask"
  /\ lastCall.args = <<"u2", "inProgress">>
  /\ Len(tasks) = 2
  /\ tasks[1].status = "todo"
  /\ tasks[2].status = "inProgress"
  /\ error = NULL
  /\ inflight # <<>>
  /\ inflight[Len(inflight)] = SaveCall(tasks, "store")

\* Positions of the tasks of ts whose id is not id.
Kept(ts, id) == {i \in 1..Len(ts) : ts[i].id # id}

\* C12: delete(id) with a falsy id sets error, leaves the collection
\* unchanged and starts no persistence call; otherwise no task with that
\* id remains, every other task is still there, unchanged and in its
\* original relative order, error becomes null and a persistence call is
\* started.
C12_Delete ==
  [][Did("deleteTask") =>
       IF Arg(1) = "" \/ Arg(1) = Undefined
       THEN /\ error' # NULL
            /\ tasks' = tasks
            /\ inflight' = inflight
       ELSE /\ Len(tasks') = Cardinality(Kept(tasks, Arg(1)))
            /\ \A i \in Kept(tasks, Arg(1)) :
                 tasks'[Cardinality({j \in Kept(tasks, Arg(1)) : j <= i})] = tasks[i]
            /\ error' = NULL
            /\ StartsSave(tasks')]_vars

\* The first of two tasks was deleted; the second is what remains.
C12_Witness ==
  /\ lastCall.op = "deleteTask"
  /\ lastCall.args = <<"u1">>
  /\ uuids = 2
  /\ Len(tasks) = 1
  /\ tasks[1].id = "u2"
  /\ error = NULL

\* The step just taken was a load that failed: the database did not open,
\* or the getAll request ended in error.
LoadFailed == Did("loadOpenFailed") \/ Did("loadRequestFailed")

\* C13: when loading the persisted tasks fails during hydrate, the store
\* ends ready (isHydrated, not isLoading), error holds a message and the
\* in-memory collection is empty.
C13_HydrateFailure ==
  [][LoadFailed =>
       /\ isHydrated'
       /\ ~isLoading'
       /\ error' # NULL
       /\ tasks' = <<>>]_vars

\* C14: every hydrate call eventually leaves the store ready: from a state
\* with isLoading the store reaches isHydrated and not isLoading, whether
\* the load succeeds or fails.
C14_HydrateEndsReady == isLoading ~> (isHydrated /\ ~isLoading)

\* A hydrate call ended ready through its catch block.
C14_Witness ==
  /\ lastCall.op = "loadRequestFailed"
  /\ isHydrated
  /\ ~isLoading
  /\ inflight = <<>>

\* Number of loadTasks calls in flight.
LoadsIn(q) == Cardinality({i \in 1..Len(q) : q[i].kind = "load"})

\* This step called hydrate(): one more load is in flight.
StartsLoad == LoadsIn(inflight') > LoadsIn(inflight)

\* This step resolved the saveTasks call of an import.
ImportSaved ==
  /\ Did("saveCommitted")
  /\ inflight[1].by = "import"
  /\ inflight[1].phase = "txn"

SaveFailed ==
  \/ Did("saveOpenFailed")
  \/ Did("saveRequestFailed")
  \/ Did("saveAborted")
  \/ Did("saveOpened") /\ FirstInvalid(inflight[FirstOpen].tasks) # 0

\* C16: when a save started by add/update/delete/move fails, no field of
\* the store changes: the collection keeps the mutation and error is
\* neither set nor altered.
C16_SaveFailureSilent ==
  [][SaveFailed =>
       /\ tasks' = tasks
       /\ error' = error
       /\ storeView' = storeView]_vars

\* The save of an added task failed; the task is still in memory, error is
\* null and nothing was persisted.
C16_Witness ==
  /\ lastCall.op = "saveRequestFailed"
  /\ Len(tasks) = 1
  /\ error = NULL
  /\ db = {}
  /\ faulted

\* The step just taken was a call of add, update, delete or move.
StoreCall ==
  Did("addTask") \/ Did("updateTask") \/ Did("deleteTask") \/ Did("moveTask")

\* The messages an operation reports.
Messages(op) ==
  CASE op = "addTask" ->
         {"Task title is required",
          "Cannot read properties of undefined (reading 'trim')"}
    [] op = "updateTask" -> {"Task not found", "No updates provided"}
    [] op = "deleteTask" -> {"Task ID is required"}
    [] op = "moveTask" -> {"Invalid move parameters"}

\* C17: no add, update, delete or move call throws to its caller, for any
\* arguments and any store state.  A call that fails (it starts no save)
\* leaves the collection as it was and leaves its own message in error,
\* whatever error held before; a call that succeeds leaves error null.
C17_NoThrow ==
  [][StoreCall =>
       /\ ~lastCall'.threw
       /\ IF inflight' = inflight
          THEN /\ error' \in Messages(lastCall'.op)
               /\ tasks' = tasks
          ELSE error' = NULL]_vars

\* After a task was added, an add with an undefined description failed
\* inside its try block: the call returned and error holds the message.
C17_Witness ==
  /\ lastCall.op = "addTask"
  /\ lastCall.args[2] = NoText
  /\ ~lastCall.threw
  /\ error = "Cannot read properties of undefined (reading 'trim')"
  /\ Len(tasks) = 1

\* C18: setFilters, setSortConfig, resetFilters and clearError leave the
\* collection, the persistence calls in flight and the persisted
\* collection as they are; the three filter and sort calls also leave
\* error, isLoading and isHydrated, and clearError leaves every field
\* but error.
C18_ViewCallsFrame ==
  [][/\ (Did("setFilters") \/ Did("setSortConfig") \/ Did("resetFilters")) =>
          /\ tasks' = tasks
          /\ inflight' = inflight
          /\ db' = db
          /\ error' = error
          /\ isLoading' = isLoading
          /\ isHydrated' = isHydrated
     /\ Did("clearError") =>
          /\ tasks' = tasks
          /\ inflight' = inflight
          /\ db' = db
          /\ storeView' = storeView]_vars

\* With a task in memory, its save in flight and an error shown, the
\* filters were reset: task, save and error are still there.
C18_Witness ==
  /\ lastCall.op = "resetFilters"
  /\ Len(tasks) = 1
  /\ Len(inflight) = 1
  /\ error = "Task ID is required"
  /\ filters = DEFAULT_FILTERS

\* The task x meets the four criteria of the filter specification f at time t.
Matches(x, f, t) ==
  /\ \/ Trim(f.search) = <<>>
     \/ Includes(ToLowerCase(x.title), ToLowerCase(f.search))
     \/ Includes(ToLowerCase(x.description), ToLowerCase(f.search))
  /\ f.status = "all" \/ x.status = f.status
  /\ f.priority = "all" \/ x.priority = f.priority
  /\ ~f.showOverdue \/ (x.dueDate \notin {NoNumber, 0} /\ x.dueDate < t)

\* The sort specification puts the task a strictly before the task b.
Precedes(a, b, config) ==
  LET lower(x, y) == IF config.direction = "asc" THEN x < y ELSE x > y
      weight(x) == CASE x.priority = "high" -> 3
                     [] x.priority = "medium" -> 2
                     [] x.priority = "low" -> 1
                     [] OTHER -> 0
      dated(x) == x.dueDate \notin {NoNumber, 0}
  IN  CASE config.field = "createdAt" -> lower(a.createdAt, b.createdAt)
        [] config.field = "dueDate" ->
             \/ dated(a) /\ ~dated(b)
             \/ dated(a) /\ dated(b) /\ lower(a.dueDate, b.dueDate)
        [] config.field = "priority" -> lower(weight(a), weight(b))
        [] config.field = "title" -> lower(LocaleCompare(a.title, b.title), 0)
        [] OTHER -> FALSE

\* Position of the task x in the collection ts (ids are distinct).
Pos(ts, x) == CHOOSE i \in 1..Len(ts) : ts[i].id = x.id

\* C19: in every store state getFilteredTasks returns the tasks of the
\* current collection that meet the current filters, each once, in the
\* order of the current sortConfig (tasks the sort does not tell apart
\* stay in collection order), and the call changes no field of the store,
\* in particular not the order of the collection.
C19_Selector ==
  [][Did("getFilteredTasks") =>
       LET r == lastCall'.result
       IN  /\ \A k \in 1..Len(r) :
                \E i \in 1..Len(tasks) : r[k] = tasks[i] /\ Matches(tasks[i], filters, now')
           /\ \A i \in 1..Len(tasks) :
                Matches(tasks[i], filters, now') =>
                  Cardinality({k \in 1..Len(r) : r[k] = tasks[i]}) = 1
           /\ \A k, l \in 1..Len(r) :
                k < l =>
                  /\ ~Precedes(r[l], r[k], sortConfig)
                  /\ Precedes(r[k], r[l], sortConfig) \/ Pos(tasks, r[k]) < Pos(tasks, r[l])
           /\ tasks' = tasks
           /\ error' = error
           /\ storeView' = storeView
           /\ inflight' = inflight
           /\ db' = db]_vars

\* After the status filter and the title sort were set, the selector
\* returned the two done tasks of a board of three, "a" before "A ", and
\* the board is as it was.
C19_Witness ==
  /\ lastCall.op = "getFilteredTasks"
  /\ filters.status = "done"
  /\ sortConfig = [field |-> "title", direction |-> "asc"]
  /\ Len(tasks) = 3
  /\ tasks[1].id = "u3"
  /\ tasks[2].id = "u1"
  /\ tasks[3].id = "u2"
  /\ Len(lastCall.result) = 2
  /\ lastCall.result[1].id = "u2"
  /\ lastCall.result[2].id = "u3"

\* C20: for any collection X of records with distinct ids, the empty one
\* included, and whatever the database held before: once saveAll(X) has
\* resolved, the collection a loadAll() reads holds exactly the records of
\* X, each once.  (Here the board holds X when loadTasks resolves and
\* takes its result.)
C20_RoundTrip ==
  [][Did("loadSucceeded") =>
       /\ ToSet(tasks') = ToSet(tasks)
       /\ Len(tasks') = Len(tasks)]_vars

\* Two records were saved and read back, in key order.
C20_Witness ==
  /\ lastCall.op = "loadSucceeded"
  /\ Len(tasks) = 2
  /\ tasks[1].id = "u1"
  /\ tasks[1].title = <<"c">>
  /\ tasks[2].id = "u2"
  /\ db = ToSet(tasks)
  /\ ~faulted

\* The step just taken ended a loadTasks call.
LoadEnded ==
  Did("loadSucceeded") \/ Did("loadOpenFailed") \/ Did("loadRequestFailed")

\* C21: loadAll never surfaces an error to its caller: when the read fails
\* (the database does not open, the read request ends in error) it
\* returns the empty collection, and otherwise the whole persisted
\* collection (empty for a database never written).
C21_LoadNeverFails ==
  [][LoadEnded =>
       /\ ~lastCall'.threw
       /\ lastCall'.result = IF Did("loadSucceeded") THEN GetAll(db) ELSE <<>>]_vars

\* What the call of the step just taken returned.
Result == lastCall'.result

Restrict(ts, I) ==
  [k \in 1..Cardinality(I) |->
     ts[CHOOSE i \in I : Cardinality({j \in I : j <= i}) = k]]

\* C23: for every array T and filter specification F, applyFilters(T, F)
\* is a subsequence of T: the elements of T at some set of positions, in
\* the order of T (so only elements of T, none more often than in T), and
\* T is left as it was.
C23_FilterSubsequence ==
  [][Did("applyFilters") =>
       /\ \E I \in SUBSET (1..Len(tasks)) : Result = Restrict(tasks, I)
       /\ tasks' = tasks]_vars

\* Of an array that holds the same done task first and last, around a
\* task that is not done, the status filter returned that task twice.
C23_Witness ==
  /\ lastCall.op = "applyFilters"
  /\ filters.status = "done"
  /\ Len(tasks) = 3
  /\ tasks[1].id = "u2"
  /\ tasks[2].id = "u1"
  /\ tasks[3].id = "u2"
  /\ lastCall.result = <<tasks[1], tasks[3]>>
  /\ lastCall.args[1] = tasks

\* C24: with showOverdue on, filterOverdue keeps a task exactly when it
\* has a dueDate, whatever its value, and that dueDate is strictly less
\* than the current time; with showOverdue off it keeps every task.
C24_Overdue ==
  [][Did("filterOverdue") =>
       Result = IF Arg(2)
                THEN SelectSeq(tasks,
                       LAMBDA x : x.dueDate # NoNumber /\ x.dueDate < now')
                ELSE tasks]_vars

\* The fields applySort recognizes.
SortFields == {"createdAt", "dueDate", "priority", "title"}

\* How often x occurs in the array ts.
Count(ts, x) == Cardinality({i \in 1..Len(ts) : ts[i] = x})

\* C25: for every array T and sort specification S with a recognized
\* field, applySort(T, S) is a permutation of T (the same tasks, each as
\* often as in T), and T is left as it was, in content and in order.
C25_SortPermutes ==
  [][(Did("applySort") /\ Arg(2).field \in SortFields) =>
       /\ Len(Result) = Len(Arg(1))
       /\ \A x \in ToSet(Arg(1)) \cup ToSet(Result) :
            Count(Result, x) = Count(Arg(1), x)
       /\ tasks' = tasks]_vars

\* An array that holds one task twice, around an older one, was sorted by
\* creation time: the older task came first, the other still twice, and
\* the array is in its own order.
C25_Witness ==
  /\ lastCall.op = "applySort"
  /\ sortConfig = [field |-> "createdAt", direction |-> "asc"]
  /\ Len(tasks) = 3
  /\ tasks[1].id = "u1"
  /\ tasks[2].id = "u2"
  /\ tasks[3].id = "u1"
  /\ lastCall.args[1] = tasks
  /\ lastCall.result = <<tasks[2], tasks[1], tasks[3]>>

\* C26: sorting is idempotent: for every array T and sort specification S,
\* applySort applied to applySort(T, S) with the same S returns
\* applySort(T, S), as a sequence.
C26_SortIdempotent ==
  [][(/\ Did("applySort")
      /\ lastCall.op = "applySort"
      /\ Arg(1) = lastCall.result
      /\ Arg(2) = lastCall.args[2]) =>
       Result = lastCall.result]_vars

\* An array of two tasks with no due date around one with a due date was
\* sorted by due date, and its result sorted again: the dated task first,
\* the other two in the order they stood in.
C26_Witness ==
  /\ lastCall.op = "applySort"
  /\ sortConfig = [field |-> "dueDate", direction |-> "asc"]
  /\ Len(tasks) = 3
  /\ tasks[1].id = "u2"
  /\ tasks[2].id = "u1"
  /\ tasks[3].id = "u5"
  /\ lastCall.args[1] = <<tasks[2], tasks[1], tasks[3]>>
  /\ lastCall.result = lastCall.args[1]

\* C27: in a due-date sort, asc or desc, every task that has a dueDate,
\* whatever its value, comes before every task that has none, and the
\* tasks that have one are in ascending order of dueDate for asc, in
\* descending order for desc.
C27_DueDateOrder ==
  [][(Did("applySort") /\ Arg(2).field = "dueDate") =>
       \A k, l \in 1..Len(Result) :
         k < l =>
           /\ ~(Result[k].dueDate = NoNumber /\ Result[l].dueDate # NoNumber)
           /\ (Result[k].dueDate # NoNumber /\ Result[l].dueDate # NoNumber) =>
                IF Arg(2).direction = "asc"
                THEN Result[k].dueDate <= Result[l].dueDate
                ELSE Result[k].dueDate >= Result[l].dueDate]_vars

\* The sort key of a task for the fields createdAt and priority.
Key(x, field) ==
  IF field = "createdAt" THEN x.createdAt
  ELSE CASE x.priority = "high" -> 3
         [] x.priority = "medium" -> 2
         [] x.priority = "low" -> 1
         [] x.priority = Undefined -> 0

C29_UnknownField ==
  [][(Did("applySort") /\ Arg(2).field \notin SortFields) =>
       /\ Result = Arg(1)
       /\ ~lastCall'.threw
       /\ error' = error
       /\ tasks' = tasks]_vars

\* An array that the default sort would reorder came back as it was from
\* a sort by "status".
C29_Witness ==
  /\ lastCall.op = "applySort"
  /\ sortConfig = [field |-> "status", direction |-> "desc"]
  /\ Len(tasks) = 2
  /\ tasks[1].id = "u2"
  /\ tasks[2].id = "u1"
  /\ lastCall.result = tasks
  /\ ~lastCall.threw

\* C30: from an empty store and an empty database, add("Buy milk") gives
\* a collection of one task, with status todo; after move(id, done),
\* getFilteredTasks with the status filter at done returns exactly that
\* task; after delete(id) the collection is empty; and after a reload,
\* once the saves have run (none failed), loadAll returns the empty
\* collection.
C30_Story ==
  [][/\ Did("addTask") =>
          /\ Len(tasks') = 1
          /\ tasks'[1].title = BuyMilk
          /\ tasks'[1].status = "todo"
     /\ Did("moveTask") =>
          /\ Len(tasks') = 1
          /\ tasks'[1] = [tasks[1] EXCEPT !.status = "done"]
     /\ Did("getFilteredTasks") =>
          /\ filters.status = "done"
          /\ Len(tasks) = 1
          /\ tasks[1].id = RandomUUID(1)
          /\ Result = tasks
     /\ Did("deleteTask") => tasks' = <<>>
     /\ (Did("loadSucceeded") /\ ~faulted) =>
          /\ Result = <<>>
          /\ tasks' = <<>>]_vars

\* The story was told to its end: one identifier was drawn, the three
\* saves committed, the page was loaded again and the load returned the
\* empty collection.
C30_Witness ==
  /\ lastCall.op = "loadSucceeded"
  /\ lastCall.result = <<>>
  /\ Told = 6
  /\ uuids = 1
  /\ ~faulted
  /\ tasks = <<>>
  /\ db = {}
  /\ isHydrated
  /\ filters = DEFAULT_FILTERS

\* C31: a save that failed or never ran is healed by the next mutation.
\* Every store mutation that succeeds starts a save of the whole in-memory
\* collection as it stands after that mutation, whatever became of the
\* earlier saves; and when a save started by a mutation resolves, the
\* persisted collection is exactly the collection that save was given.
C31_NextSaveHeals ==
  [][/\ (StoreCall /\ error' = NULL) => StartsSave(tasks')
     /\ (Did("saveCommitted") /\ inflight[1].phase = "txn"
                               /\ inflight[1].by = "store")
          => db' = ToSet(inflight[1].tasks)]_vars

\* The save of the first add failed, the save of the second add resolved:
\* both records are persisted.
C31_Witness ==
  /\ faulted
  /\ lastCall.op = "saveCommitted"
  /\ lastCall.args = <<"txn">>
  /\ inflight = <<>>
  /\ calls = 2
  /\ Len(tasks) = 2
  /\ db = ToSet(tasks)

\* The one accepted document of ImportDocs.
C32_Doc == ImportDocs[Len(ImportDocs)]

\* C32: when the handler of an accepted import finishes successfully (its
\* hydrate() has loaded), the persisted and the in-memory collection are
\* both the imported collection, however its two awaited steps interleave
\* with store mutations and their saves; a document that is no array
\* changes neither collection.
C32_ImportReplaces ==
  [][/\ Did("loadSucceeded") => (db' = ToSet(C32_Doc) /\ tasks' = C32_Doc)
     /\ (Did("handleImport") /\ ~IsArray(Arg(1)))
          => (tasks' = tasks /\ db' = db /\ inflight' = inflight)]_vars

\* C33: App renders the form, the filters and the board only when
\* isHydrated is true and isLoading is false, and the loading screen
\* otherwise: every add, update, delete or move the interface issues
\* starts in a state where the store is hydrated and not loading.
C33_GatedCalls == [][StoreCall => (isHydrated /\ ~isLoading)]_vars

\* A card was dragged to another column after the board appeared.
C33_Witness ==
  /\ lastCall.op = "moveTask"
  /\ calls = 3
  /\ Len(tasks) = 1
  /\ tasks[1].status = "done"
  /\ isHydrated
  /\ ~isLoading

\* C34: each save a mutation starts writes the collection exactly as it
\* stood right after that mutation.  The save a store call appends carries
\* the collection that call has just set; no later step changes the records
\* a call in flight carries, nor the order of the calls; and a transaction
\* that commits writes the records of its own call, whatever the
\* in-memory collection has become by then.
C34_SnapshotAtCall ==
  [][/\ StoreCall =>
          \/ inflight' = inflight
          \/ /\ Len(inflight') = Len(inflight) + 1
             /\ SubSeq(inflight', 1, Len(inflight)) = inflight
             /\ inflight'[Len(inflight')].kind = "save"
             /\ inflight'[Len(inflight')].tasks = tasks'
     /\ Did("saveOpened") =>
          /\ Len(inflight') = Len(inflight)
          /\ \A i \in 1..Len(inflight) : inflight'[i].tasks = inflight[i].tasks
     /\ (Did("saveCommitted") /\ inflight[1].phase = "txn") =>
          /\ db' = ToSet(inflight[1].tasks)
          /\ inflight' = Tail(inflight)]_vars

\* Two adds; the save of the first has committed while the second is still
\* in flight: one record is persisted, two are in memory.
C34_Witness ==
  /\ lastCall.op = "saveCommitted"
  /\ lastCall.args = <<"txn">>
  /\ ~faulted
  /\ Len(tasks) = 2
  /\ db = {tasks[1]}
  /\ Len(inflight) = 1
  /\ inflight[1].tasks = tasks

\* C35: when hydrate completes successfully, the in-memory collection
\* becomes exactly what loadTasks returned and error becomes null; a task
\* that was in memory only (a mutation made while the load was in flight,
\* not persisted when the load read) is no longer in memory afterwards.
C35_HydrateOverwrites ==
  [][(Did("loadSucceeded") \/ Did("loadOpenFailed")) =>
       /\ tasks' = Result
       /\ error' = NULL
       /\ Did("loadSucceeded") => ToSet(Result) = db
       /\ \A i \in 1..Len(tasks) :
            tasks[i] \notin ToSet(Result) => tasks[i] \notin ToSet(tasks')]_vars

\* A task was added while the load was in flight: the load has emptied the
\* in-memory collection, and the save of the add is still to run.
C35_Witness ==
  /\ lastCall.op = "loadSucceeded"
  /\ tasks = <<>>
  /\ error = NULL
  /\ uuids = 1
  /\ Len(inflight) = 1
  /\ inflight[1].kind = "save"
  /\ Len(inflight[1].tasks) = 1

\* C36: isLoading is true in every state in which some hydrate call has
\* started and not finished (its loadTasks is in flight), also when
\* hydrations overlap.
C36_LoadingWhileHydrating == LoadsIn(inflight) > 0 => isLoading

\* C37: deleteTask(id) and moveTask(id, status) with a non-empty id that
\* matches no task (and, for a move, a status of the board) leave the
\* contents and the order of the collection unchanged, report no error
\* (error becomes null, whatever it was), and still start a save.
C37_AbsentId ==
  [][(/\ Did("deleteTask") \/ (Did("moveTask") /\ Arg(2) \in TaskStatus)
      /\ ~Falsy(Arg(1))
      /\ ~TaskExists(tasks, Arg(1))) =>
       /\ tasks' = tasks
       /\ error' = NULL
       /\ ~lastCall'.threw
       /\ StartsSave(tasks)]_vars

\* A move that named an identifier never handed out: the one task of the
\* collection is still there, with its status, and a save of it was started.
C37_Witness ==
  /\ lastCall.op = "moveTask"
  /\ lastCall.args = <<"u2", "done">>
  /\ uuids = 1
  /\ Len(tasks) = 1
  /\ tasks[1].id = "u1"
  /\ tasks[1].status = "todo"
  /\ error = NULL
  /\ inflight # <<>>
  /\ inflight[Len(inflight)].tasks = tasks

\* C38: the result of filtering does not depend on the order of the
\* stages: the search, status, priority and overdue filters applied in
\* any order to the arguments of an applyFilters call, at the same clock
\* reading, give the sequence applyFilters returned; and applyFilters
\* applied to its own result, the clock standing still, returns that result.
C38_OrderIndependent ==
  [][/\ Did("filterStages") =>
          /\ lastCall.op = "applyFilters"
          /\ Arg(1) = lastCall.args[1]
          /\ Arg(2) = lastCall.args[2]
          /\ now' = now
          /\ Result = lastCall.result
     /\ (Did("applyFilters") /\ lastCall.op = "applyFilters"
                             /\ Arg(1) = lastCall.result /\ now' = now)
          => Result = lastCall.result]_vars

\* All four filters are active and were applied in the reverse of
\* applyFilters' order; one of two tasks passed.
C38_Witness ==
  /\ lastCall.op = "filterStages"
  /\ lastCall.args[3] = <<"overdue", "priority", "status", "search">>
  /\ filters.search # <<>>
  /\ filters.status # "all"
  /\ filters.priority # "all"
  /\ filters.showOverdue
  /\ Len(tasks) = 2
  /\ Len(lastCall.result) = 1

\* C39: every saveTasks call eventually settles, whichever way its
\* transaction ends (completion, error or abort), and so terminates and
\* releases its database connection: each event that ends the transaction
\* of a call whose executor finished leaves the call's promise settled and
\* its connection closed.
C39_SaveSettles ==
  [][((Did("saveCommitted") \/ Did("saveRequestFailed") \/ Did("saveAborted"))
        /\ Arg(1) = "txn") =>
       (lastCall'.settled /\ lastCall'.closed)]_vars

\* C40: retryWithBackoff calls the wrapped operation at most maxRetries + 1
\* times, stops at the first success, waits baseDelay * 2^attempt between
\* consecutive attempts, makes no attempt after an authentication (API
\* key) failure, and ends by returning the operation's result or by
\* rethrowing the last failure.
C40_Retry ==
  [][Did("retryWithBackoff") =>
       LET o == Arg(1)
           m == Arg(2)
           d == Arg(3)
           r == Result
       IN  /\ r.tried \in 1..(m + 1)
           /\ \A k \in 1..(r.tried - 1) :
                /\ ~o[k].resolved
                /\ ~(o[k].value.isError /\ Includes(o[k].value.message, API_KEY))
           /\ Len(r.waits) = r.tried - 1
           /\ \A k \in 1..Len(r.waits) : r.waits[k] = d * (2 ^ (k - 1))
           /\ r.threw = ~o[r.tried].resolved
           /\ r.value = o[r.tried].value
           /\ r.threw =>
                \/ r.tried = m + 1
                \/ (r.value.isError /\ Includes(r.value.message, API_KEY))]_vars

\* The defaults: two failures that are retried after 1 s and 2 s, then success.
C40_Witness ==
  /\ lastCall.op = "retryWithBackoff"
  /\ lastCall.args[2] = MAX_RETRIES
  /\ lastCall.args[3] = BASE_DELAY
  /\ ~lastCall.result.threw
  /\ lastCall.result.tried = 3
  /\ lastCall.result.waits = <<1000, 2000>>
  /\ lastCall.result.value = "summary"

====
